---- MODULE Spec2Model ----
(***************************************************************************)
(* Tool-calling agent orchestrator of docs/archive/agents/v3_subagent.py:  *)
(* the primary loop agent(), the delegated loop run_subagent(), the tool   *)
(* handlers execute() and execute_basic(), the task list `todos`, the      *)
(* registry `subagents` and print_status().                                *)
(*                                                                         *)
(* A Python str is modelled as a sequence of string tokens (a "text"):     *)
(* file contents are sequences of one-character tokens, an f-string is the *)
(* sequence of its literal pieces and interpolated values, and "".join is  *)
(* sequence concatenation.  Names, paths, commands and statuses are single *)
(* tokens.  Python's 0-based positions are kept: position i of a list is   *)
(* element i + 1 of the sequence that models it.                           *)
(***************************************************************************)
EXTENDS Integers, Sequences, FiniteSets, TLC

VARIABLES
    todos,       \* v3_subagent.py:12   list of {"task", "status"}
    subagents,   \* v3_subagent.py:15   list of {"task", "status", "turns"}
    files,       \* the file system the file tools and bash act on
    stack,       \* the call stack of engines: agent() below, run_subagent() above
    proc,        \* "running", "done" (agent() returned), "crashed" (exception left agent())
    result,      \* the value agent() returned (v3_subagent.py:412)
    exc,         \* the exception that left agent(), "none" otherwise
    calls,       \* number of client.messages.create calls: total, and of the running delegated run
    console      \* what print_status() or the echo of a tool result wrote last ("" for nothing)

vars == <<todos, subagents, files, stack, proc, result, exc, calls, console>>

---------------------------------------------------------------------------
(* Bounds of the model.                                                    *)

\* the service ends the primary run at the latest with this response
MaxMainTurns == 2
\* the service requests at most this many delegations in a primary run
MaxSubagents == 2
\* the service requests at most this many todo_add in a primary run
MaxTodos == 2

(* Program constants.                                                      *)

\* (mutant) the loop runs once more than the ceiling
max_turns_plus_one == 20 + 1

\* max_turns = 20  # Prevent runaway subagents
max_turns == 20

\* result[:500]: the length up to which a tool result is echoed whole
display_limit == 500

---------------------------------------------------------------------------
(* Texts.                                                                  *)

RECURSIVE Join(_)
\* "".join(texts)
Join(texts) == IF texts = <<>> THEN <<>> ELSE Head(texts) \o Join(Tail(texts))

---------------------------------------------------------------------------
(* str.count, `in` and str.replace of Python on sequences of characters.   *)

MatchAt(content, old, i) ==
    /\ i + Len(old) - 1 <= Len(content)
    /\ SubSeq(content, i, i + Len(old) - 1) = old

\* old in content
Contains(content, old) == \E i \in 1..(Len(content) + 1) : MatchAt(content, old, i)

RECURSIVE CountFrom(_, _, _)
CountFrom(content, old, i) ==
    IF i + Len(old) - 1 > Len(content) THEN 0
    ELSE IF MatchAt(content, old, i) THEN 1 + CountFrom(content, old, i + Len(old))
    ELSE CountFrom(content, old, i + 1)

\* content.count(old): non-overlapping occurrences, leftmost first; the
\* empty string occurs len(content) + 1 times
StrCount(content, old) ==
    IF old = <<>> THEN Len(content) + 1 ELSE CountFrom(content, old, 1)

RECURSIVE ReplaceFrom(_, _, _, _)
ReplaceFrom(content, old, new, i) ==
    IF i > Len(content) THEN <<>>
    ELSE IF MatchAt(content, old, i)
         THEN new \o ReplaceFrom(content, old, new, i + Len(old))
         ELSE <<content[i]>> \o ReplaceFrom(content, old, new, i + 1)

RECURSIVE Interleave(_, _)
Interleave(content, new) ==
    IF content = <<>> THEN new
    ELSE new \o <<Head(content)>> \o Interleave(Tail(content), new)

\* content.replace(old, new): every non-overlapping occurrence
StrReplace(content, old, new) ==
    IF old = <<>> THEN Interleave(content, new) ELSE ReplaceFrom(content, old, new, 1)

---------------------------------------------------------------------------
(* The file system and the shell, as the tool handlers see them.           *)

Absent == [kind |-> "absent", content |-> <<>>]
Dir == [kind |-> "dir", content |-> <<>>]
File(content) == [kind |-> "file", content |-> content]

Paths == {"f", "d"}

\* subprocess.run(command, shell=True, capture_output=True, text=True,
\* timeout=120): what the command printed, what it did to the files, and
\* whether it outlived the timeout
Shell(command, fs) ==
    CASE command = "echo hi" -> [timeout |-> FALSE, out |-> <<"h", "i">>, files |-> fs]
      [] command = "rm f"    -> [timeout |-> FALSE, out |-> <<>>,
                                 files |-> [fs EXCEPT !["f"] = Absent]]
      [] command = "sleep"   -> [timeout |-> TRUE, out |-> <<>>, files |-> fs]
      [] command = "printf %0501d 0" ->
            [timeout |-> FALSE, out |-> [k \in 1..501 |-> "0"], files |-> fs]
      [] OTHER               -> [timeout |-> FALSE, out |-> <<"sh: not found">>, files |-> fs]

---------------------------------------------------------------------------
(* Outcomes of a handler: it returns a text, returns None, raises, or (the *)
(* 'task' tool) calls run_subagent and returns what that returns.          *)

Return(text, fs, td) ==
    [kind |-> "return", text |-> text, exc |-> "none", files |-> fs, todos |-> td,
     description |-> ""]
NotHandled(fs, td) ==
    [kind |-> "none", text |-> <<>>, exc |-> "none", files |-> fs, todos |-> td,
     description |-> ""]
Raise(e, fs, td) ==
    [kind |-> "raise", text |-> <<>>, exc |-> e, files |-> fs, todos |-> td,
     description |-> ""]
Spawn(description, fs, td) ==
    [kind |-> "spawn", text |-> <<>>, exc |-> "none", files |-> fs, todos |-> td,
     description |-> description]

\* tool_input[key] raises KeyError when the service left the input out
Has(tool_input, key) == key \in DOMAIN tool_input

bash_tool(tool_input, fs, td) ==
    IF ~Has(tool_input, "command")
    THEN Return(<<"Error: ", "'command'">>, fs, td)        \* KeyError inside the try
    ELSE LET run == Shell(tool_input.command, fs) IN
         IF run.timeout
         THEN Return(<<"Error: Command timed out after 120 seconds">>, run.files, td)
         ELSE Return(IF run.out # <<>> THEN run.out ELSE <<"(no output)">>, run.files, td)

read_tool(tool_input, fs, td) ==
    IF ~Has(tool_input, "path") THEN Raise("KeyError", fs, td)
    ELSE LET path == tool_input.path IN
         CASE fs[path].kind = "absent" -> Return(<<"Error: File not found: ", path>>, fs, td)
           [] fs[path].kind = "dir" -> Return(<<"Error reading file: ", "IsADirectoryError">>, fs, td)
           [] OTHER ->
                Return(IF fs[path].content # <<>> THEN fs[path].content
                       ELSE <<"(empty file)">>, fs, td)

write_tool(tool_input, fs, td) ==
    IF ~Has(tool_input, "path") \/ ~Has(tool_input, "content") THEN Raise("KeyError", fs, td)
    ELSE LET path == tool_input.path
             content == tool_input.content IN
         IF fs[path].kind = "dir"
         THEN Return(<<"Error writing file: ", "IsADirectoryError">>, fs, td)
         ELSE Return(<<"Successfully wrote ", ToString(Len(content)), " bytes to ", path>>,
                     [fs EXCEPT ![path] = File(content)], td)

edit_tool(tool_input, fs, td) ==
    IF \E k \in {"path", "old_string", "new_string"} : ~Has(tool_input, k)
    THEN Raise("KeyError", fs, td)
    ELSE LET path == tool_input.path
             old_string == tool_input.old_string
             new_string == tool_input.new_string
             content == fs[path].content
             count == StrCount(content, old_string) IN
         CASE fs[path].kind = "absent" -> Return(<<"Error: File not found: ", path>>, fs, td)
           [] fs[path].kind = "dir" -> Return(<<"Error editing file: ", "IsADirectoryError">>, fs, td)
           [] OTHER ->
                IF ~Contains(content, old_string)
                THEN Return(<<"Error: old_string not found in ", path>>, fs, td)
                ELSE IF count > 1
                THEN Return(<<"Error: old_string found ", ToString(count),
                              " times. Make it more specific.">>, fs, td)
                ELSE Return(<<"Successfully edited ", path>>,
                            [fs EXCEPT ![path] =
                                File(StrReplace(content, old_string, new_string))], td)

\* execute_basic(tool_name, tool_input): the tools shared by both engines
execute_basic(tool_name, tool_input, fs, td) ==
    CASE tool_name = "bash"  -> bash_tool(tool_input, fs, td)
      [] tool_name = "read"  -> read_tool(tool_input, fs, td)
      [] tool_name = "write" -> write_tool(tool_input, fs, td)
      [] tool_name = "edit"  -> edit_tool(tool_input, fs, td)
      [] OTHER               -> NotHandled(fs, td)

---------------------------------------------------------------------------
(* The task list and the main engine's tools.                              *)

\* a JSON integer, and a JSON value of another type, as the service may
\* send either for "index"
JInt(n) == [type |-> "integer", value |-> n]
JOther(v) == [type |-> "string", value |-> v]

\* (mutant) the new record goes to the front of the list
todo_add_at_front(tool_input, fs, td) ==
    IF ~Has(tool_input, "task") THEN Raise("KeyError", fs, td)
    ELSE LET task == tool_input.task
             td2 == <<[task |-> task, status |-> "pending"]>> \o td IN
         Return(<<"Added task ", ToString(Len(td2) - 1), ": ", task>>, fs, td2)

\* todos.append({"task": task, "status": "pending"})
todo_add(tool_input, fs, td) ==
    IF ~Has(tool_input, "task") THEN Raise("KeyError", fs, td)
    ELSE LET task == tool_input.task
             td2 == Append(td, [task |-> task, status |-> "pending"]) IN
         Return(<<"Added task ", ToString(Len(td2) - 1), ": ", task>>, fs, td2)

\* (mutant) the lower bound is not checked, and a negative index counts
\* from the end of the list as Python's does
todo_update_no_lower_bound(tool_input, fs, td) ==
    IF ~Has(tool_input, "index") \/ ~Has(tool_input, "status") THEN Raise("KeyError", fs, td)
    ELSE IF tool_input.index.type # "integer"
    THEN Raise("TypeError", fs, td)
    ELSE LET index == tool_input.index.value
             status == tool_input.status
             position == IF index < 0 THEN Len(td) + index + 1 ELSE index + 1 IN
         IF index >= Len(td) \/ position < 1
         THEN Return(<<"Error: Invalid index ", ToString(index), ". Valid range: 0-",
                       ToString(Len(td) - 1)>>, fs, td)
         ELSE Return(<<"Updated task ", ToString(index), " to ", status>>, fs,
                     [td EXCEPT ![position].status = status])

todo_update(tool_input, fs, td) ==
    IF ~Has(tool_input, "index") \/ ~Has(tool_input, "status") THEN Raise("KeyError", fs, td)
    ELSE IF tool_input.index.type # "integer"
    THEN Raise("TypeError", fs, td)                         \* index < 0 on a str
    ELSE LET index == tool_input.index.value
             status == tool_input.status IN
         IF index < 0 \/ index >= Len(td)
         THEN Return(<<"Error: Invalid index ", ToString(index), ". Valid range: 0-",
                       ToString(Len(td) - 1)>>, fs, td)
         ELSE Return(<<"Updated task ", ToString(index), " to ", status>>, fs,
                     [td EXCEPT ![index + 1].status = status])

\* status_icons.get(status, "[ ]")
status_icon(status) ==
    CASE status = "pending"     -> "[ ]"
      [] status = "in_progress" -> "[~]"
      [] status = "done"        -> "[x]"
      [] OTHER                  -> "[ ]"

todo_line(i, todo) == <<ToString(i), ". ", status_icon(todo.status), " ", todo.task>>

RECURSIVE todo_lines(_, _)
\* "\n".join(lines), lines[i] the line of position i, from position i on
todo_lines(td, i) ==
    IF i >= Len(td) THEN <<>>
    ELSE todo_line(i, td[i + 1])
         \o (IF i + 1 < Len(td) THEN <<"\n">> ELSE <<>>)
         \o todo_lines(td, i + 1)

\* (mutant) the joined lines are returned also when there is no record
todo_list_no_sentinel(tool_input, fs, td) == Return(todo_lines(td, 0), fs, td)

todo_list(tool_input, fs, td) ==
    IF td = <<>> THEN Return(<<"No tasks yet.">>, fs, td)
    ELSE Return(todo_lines(td, 0), fs, td)

task_tool(tool_input, fs, td) ==
    IF ~Has(tool_input, "description") THEN Raise("KeyError", fs, td)
    ELSE Spawn(tool_input.description, fs, td)

\* (mutant) a name that matches no tool yields the empty text
execute_unknown_is_empty(tool_name, tool_input, fs, td) ==
    LET basic == execute_basic(tool_name, tool_input, fs, td) IN
    IF basic.kind # "none" THEN basic
    ELSE CASE tool_name = "todo_add"    -> todo_add(tool_input, fs, td)
           [] tool_name = "todo_update" -> todo_update(tool_input, fs, td)
           [] tool_name = "todo_list"   -> todo_list(tool_input, fs, td)
           [] tool_name = "task"        -> task_tool(tool_input, fs, td)
           [] OTHER -> Return(<<>>, fs, td)

\* execute(tool_name, tool_input): the main engine's tools
execute(tool_name, tool_input, fs, td) ==
    LET basic == execute_basic(tool_name, tool_input, fs, td) IN
    IF basic.kind # "none" THEN basic
    ELSE CASE tool_name = "todo_add"    -> todo_add(tool_input, fs, td)
           [] tool_name = "todo_update" -> todo_update(tool_input, fs, td)
           [] tool_name = "todo_list"   -> todo_list(tool_input, fs, td)
           [] tool_name = "task"        -> task_tool(tool_input, fs, td)
           [] OTHER -> Return(<<"Unknown tool: ", tool_name>>, fs, td)

\* (mutant) the delegated engine has the task-list tools as well
execute_delegated_with_todos(tool_name, tool_input, fs, td) ==
    LET basic == execute_basic(tool_name, tool_input, fs, td) IN
    IF basic.kind # "none" THEN basic
    ELSE CASE tool_name = "todo_add"    -> todo_add(tool_input, fs, td)
           [] tool_name = "todo_update" -> todo_update(tool_input, fs, td)
           [] tool_name = "todo_list"   -> todo_list(tool_input, fs, td)
           [] OTHER -> Return(<<"Unknown tool: ", tool_name>>, fs, td)

\* (mutant) the delegated engine dispatches through execute(), so 'task'
\* resolves for it too
execute_delegated_all_tools(tool_name, tool_input, fs, td) ==
    execute(tool_name, tool_input, fs, td)

\* the delegated engine's tools: execute_basic, and None becomes the
\* unknown-tool text
execute_delegated(tool_name, tool_input, fs, td) ==
    LET basic == execute_basic(tool_name, tool_input, fs, td) IN
    IF basic.kind = "none" THEN Return(<<"Unknown tool: ", tool_name>>, fs, td)
    ELSE basic

\* the names of main_tools and of subagent_tools, sent with each request
main_tools ==
    <<"bash", "read", "write", "edit", "todo_add", "todo_update", "todo_list", "task">>

subagent_tools ==
    SelectSeq(main_tools, LAMBDA t : t \notin {"task", "todo_add", "todo_update", "todo_list"})

---------------------------------------------------------------------------
(* The reasoning service: what client.messages.create may answer.          *)

Text(t) == [type |-> "text", text |-> t]
ToolUse(name, input) == [type |-> "tool_use", name |-> name, input |-> input]
Response(stop_reason, content) == [stop_reason |-> stop_reason, content |-> content]

NoInput == [x \in {} |-> 0]

Add(task) == ToolUse("todo_add", [task |-> task])
Update(index, status) == ToolUse("todo_update", [index |-> index, status |-> status])
List == ToolUse("todo_list", NoInput)
Task(description) == ToolUse("task", [description |-> description])
Bash(command) == ToolUse("bash", [command |-> command])
Read(path) == ToolUse("read", [path |-> path])
Write(path, content) == ToolUse("write", [path |-> path, content |-> content])
Edit(path, old, new) ==
    ToolUse("edit", [path |-> path, old_string |-> old, new_string |-> new])

\* responses to the main engine that ask for tools and say so
MainToolResponses ==
    {Response("tool_use", <<Add("t1")>>),
     Response("tool_use", <<Text(<<"plan">>), Add("t1"), Add("t2"),
                             Update(JInt(1), "in_progress"), List>>),
     Response("tool_use", <<Add("t1"), Update(JInt(0), "done"), Update(JInt(1), "done")>>),
     Response("tool_use", <<Add("t1"), Update(JInt(-1), "done"), Update(JInt(5), "done")>>),
     Response("tool_use", <<Add("t1"), Update(JInt(0), "blocked"), List>>),
     Response("tool_use", <<Update(JInt(0), "done")>>),
     Response("tool_use", <<Update(JOther("0"), "done")>>),
     Response("tool_use", <<ToolUse("todo_update", [status |-> "done"])>>),
     Response("tool_use", <<ToolUse("todo_add", NoInput)>>),
     Response("tool_use", <<List>>),
     Response("tool_use", <<Task("d1")>>),
     Response("tool_use", <<Task("d1"), Task("d2")>>),
     Response("tool_use", <<Add("t1"), Task("d2"), Update(JInt(0), "done")>>),
     Response("tool_use", <<ToolUse("task", NoInput)>>),
     Response("tool_use", <<ToolUse("deploy", NoInput), Bash("echo hi")>>),
     Response("tool_use", <<Write("f", <<"a", "a">>), Edit("f", <<"a">>, <<"c">>)>>),
     Response("tool_use", <<Edit("f", <<"a">>, <<"c">>), Read("f")>>),
     Response("tool_use", <<Read("f"), ToolUse("read", NoInput)>>),
     Response("tool_use", <<Bash("printf %0501d 0"), Bash("echo hi")>>)}

\* responses to the main engine with another stop reason
MainFinalResponses ==
    {Response("end_turn", <<Text(<<"all ">>), Text(<<"done">>)>>),
     Response("end_turn", <<>>),
     Response("max_tokens", <<Text(<<"cut">>), Add("t1")>>),
     Response("max_tokens", <<Write("f", <<"c">>)>>),
     Response("max_tokens", <<Task("d1")>>),
     Response("max_tokens", <<Bash("rm f")>>)}

MainResponses == MainToolResponses \cup MainFinalResponses

\* the request the service may go on repeating in a delegated run
SubRepeat == Response("tool_use", <<Bash("echo hi")>>)

SubFinal == Response("end_turn", <<Text(<<"report">>)>>)

\* whether a response the engine holds (with its ids) is SubRepeat
IsRepeat(response) ==
    /\ response.stop_reason = "tool_use"
    /\ Len(response.content) = 1
    /\ response.content[1].type = "tool_use"
    /\ response.content[1].name = "bash"
    /\ response.content[1].input = [command |-> "echo hi"]

\* first responses to a delegated engine
SubFirstResponses ==
    {SubRepeat,
     Response("tool_use", <<Bash("rm f")>>),
     Response("tool_use", <<Bash("sleep"), ToolUse("bash", NoInput)>>),
     Response("tool_use", <<Text(<<"step">>), Read("f"), Read("d")>>),
     Response("tool_use", <<ToolUse("read", NoInput)>>),
     Response("tool_use", <<Write("f", <<"a", "a", "a">>), Edit("f", <<"a", "a">>, <<"c">>)>>),
     Response("tool_use", <<Write("d", <<"a">>), Edit("d", <<"a">>, <<"c">>)>>),
     Response("tool_use", <<Edit("f", <<"z">>, <<"c">>), Edit("f", <<"b">>, <<>>)>>),
     Response("tool_use", <<ToolUse("edit", [path |-> "f", old_string |-> <<"a">>])>>),
     Response("tool_use", <<Task("d2")>>),
     Response("tool_use", <<Add("t2"), Update(JInt(0), "done"), List>>),
     Response("max_tokens", <<Text(<<"cut">>), Bash("rm f")>>),
     Response("end_turn", <<Text(<<"re">>), Text(<<"port">>)>>),
     Response("end_turn", <<>>)}

\* responses to a delegated engine in its turn `turn` (1-based) after the
\* response `previous`: the first response is free; then the service
\* completes the run in its second turn, or it goes on repeating SubRepeat
\* and may complete the run in its last turn
SubResponses(turn, previous) ==
    IF turn = 1 THEN SubFirstResponses
    ELSE (IF turn = 2 \/ turn = max_turns THEN {SubFinal} ELSE {})
         \cup (IF IsRepeat(previous) THEN {SubRepeat} ELSE {})

\* number of requests for tool `name` in a response
Requests(response, name) ==
    Cardinality({k \in 1..Len(response.content) :
                    /\ response.content[k].type = "tool_use"
                    /\ response.content[k].name = name})

\* the service gives every tool request a correlation id of its own: here
\* the run that asked, the turn, and the position of the block
WithIds(response, base) ==
    [response EXCEPT !.content =
        [k \in 1..Len(response.content) |->
            IF response.content[k].type = "tool_use"
            THEN [type |-> "tool_use", id |-> base \o <<k>>,
                  name |-> response.content[k].name, input |-> response.content[k].input]
            ELSE response.content[k]]]

---------------------------------------------------------------------------
(* The engines.  A frame is one running agent() or run_subagent() call:    *)
(* its local variables and its position in the loop.                       *)
(*   pc = "call"    at the top of the loop, before client.messages.create  *)
(*   pc = "blocks"  in `for block in response.content`, block i is next    *)
(*   pc = "wait"    inside execute(), waiting for run_subagent to return   *)

NoResponse == Response("", <<>>)
NoRequest == [system |-> "", tools |-> <<>>, messages |-> <<>>]

\* (mutant) a delegated engine starts from its caller's history
Frame_with_callers_history(role, seed, subagent_id) ==
    [role |-> role, pc |-> "call",
     messages |-> (IF role = "delegated" THEN stack[Len(stack)].messages ELSE <<>>)
                  \o <<[role |-> "user", content |-> seed]>>,
     turn |-> 0, response |-> NoResponse, i |-> 1,
     assistant_content |-> <<>>, tool_results |-> <<>>,
     subagent_id |-> subagent_id, request |-> NoRequest]

Frame(role, seed, subagent_id) ==
    [role |-> role, pc |-> "call",
     messages |-> <<[role |-> "user", content |-> seed]>>,
     turn |-> 0, response |-> NoResponse, i |-> 1,
     assistant_content |-> <<>>, tool_results |-> <<>>,
     subagent_id |-> subagent_id, request |-> NoRequest]

Top == stack[Len(stack)]

\* the number of the run a frame is: 0 the primary run, k + 1 the
\* delegated run of subagent k
RunOf(frame) == frame.subagent_id + 1

\* stack with its top frame replaced
SetTop(frame) == [stack EXCEPT ![Len(stack)] = frame]

ToolResult(block, text) ==
    [type |-> "tool_result", tool_use_id |-> block.id, content |-> text]

\* (mutant) only the first text block is returned
FinalText_first_text_only(response) ==
    LET texts == SelectSeq(response.content, LAMBDA b : b.type = "text") IN
    IF texts = <<>> THEN <<>> ELSE texts[1].text

\* "".join(b.text for b in response.content if hasattr(b, "text"))
FinalText(response) ==
    Join([k \in 1..Len(response.content) |->
            IF response.content[k].type = "text" THEN response.content[k].text ELSE <<>>])

\* (mutant) the newest result is put in front of the earlier ones
Answered_newest_first(frame, text) ==
    [frame EXCEPT !.tool_results =
                      <<[type |-> "tool_result",
                         tool_use_id |-> frame.response.content[frame.i].id,
                         content |-> text]>> \o @,
                  !.i = @ + 1,
                  !.pc = "blocks"]

\* the frame after the handler of block i returned `text`
Answered(frame, text) ==
    [frame EXCEPT !.tool_results = Append(@, ToolResult(frame.response.content[frame.i], text)),
                  !.i = @ + 1,
                  !.pc = "blocks"]

\* (mutant) the caller keeps the shortened text it displays, not the text
\* run_subagent returned
ReturnToCaller_display_text(text) ==
    LET below == SubSeq(stack, 1, Len(stack) - 1) IN
    [below EXCEPT ![Len(below)] =
        Answered(below[Len(below)],
                 IF Len(text) > 1 THEN SubSeq(text, 1, 1) \o <<"...">> ELSE text)]

\* the caller's stack after run_subagent returned `text` to execute(), and
\* execute() returned it to the loop
ReturnToCaller(text) ==
    LET below == SubSeq(stack, 1, Len(stack) - 1) IN
    [below EXCEPT ![Len(below)] = Answered(below[Len(below)], text)]

\* subagents.append({"task": ..., "status": "running", "turns": 0})
NewRecord(subs, description) ==
    Append(subs, [task |-> description, status |-> "running", turns |-> 0])

\* (mutant) the loop variable itself is recorded, which counts from 0
SetTurns_loop_variable(subs, subagent_id, n) == [subs EXCEPT ![subagent_id + 1].turns = n - 1]

\* (mutant) the turn count goes to the first record, whatever run it is
SetTurns_first_record(subs, subagent_id, n) == [subs EXCEPT ![1].turns = n]

\* subagents[subagent_id]["turns"] = n
SetTurns(subs, subagent_id, n) == [subs EXCEPT ![subagent_id + 1].turns = n]

\* (mutant) the status is written for a completed run only: a run that
\* reaches the ceiling stays 'running'
SetStatus_done_only(subs, subagent_id, status) ==
    IF status = "done" THEN [subs EXCEPT ![subagent_id + 1].status = status] ELSE subs

\* (mutant) the final status is never written
SetStatus_forgotten(subs, subagent_id, status) == subs

\* (mutant) every end of a run is recorded as done
SetStatus_always_done(subs, subagent_id, status) ==
    [subs EXCEPT ![subagent_id + 1].status = "done"]

\* subagents[subagent_id]["status"] = status
SetStatus(subs, subagent_id, status) == [subs EXCEPT ![subagent_id + 1].status = status]

\* the text run_subagent returns when the loop ran out
timeout_notice ==
    <<"Subagent reached max turns (", ToString(max_turns), "). Partial work may be completed.">>

\* (mutant) every task record is counted as done
print_status_all_done(td, subs) ==
    LET running == Cardinality({k \in 1..Len(subs) : subs[k].status = "running"})
        p1 == IF td # <<>>
              THEN <<<<"Todos: ", ToString(Len(td)), "/", ToString(Len(td))>>>> ELSE <<>>
        p2 == IF subs # <<>>
              THEN <<<<"Subagents: ", ToString(Len(subs)), " (", ToString(running),
                       " running)">>>> ELSE <<>>
        parts == p1 \o p2 IN
    IF parts = <<>> THEN <<>>
    ELSE <<"  ">> \o parts[1] \o (IF Len(parts) > 1 THEN <<" | ">> \o parts[2] ELSE <<>>)

\* print_status(): the line it prints, <<>> when it prints nothing
print_status(td, subs) ==
    LET done == Cardinality({k \in 1..Len(td) : td[k].status = "done"})
        running == Cardinality({k \in 1..Len(subs) : subs[k].status = "running"})
        p1 == IF td # <<>>
              THEN <<<<"Todos: ", ToString(done), "/", ToString(Len(td))>>>> ELSE <<>>
        p2 == IF subs # <<>>
              THEN <<<<"Subagents: ", ToString(Len(subs)), " (", ToString(running),
                       " running)">>>> ELSE <<>>
        parts == p1 \o p2 IN
    IF parts = <<>> THEN <<>>
    ELSE <<"  ">> \o parts[1] \o (IF Len(parts) > 1 THEN <<" | ">> \o parts[2] ELSE <<>>)

\* len(text): the number of characters of a text, all its tokens together
CharLen(text) ==
    Cardinality(UNION {{<<k, j>> : j \in 1..Len(text[k])} : k \in 1..Len(text)})

\* result[:500] + "..." if len(result) > 500 else result.  A text of this
\* model that is longer than 500 characters is a sequence of characters.
display(text) ==
    IF CharLen(text) > display_limit THEN SubSeq(text, 1, display_limit) \o <<"...">>
    ELSE text

\* what the engine of `frame` prints of the result `text` of the block at
\* hand: the main loop echoes every result but that of 'task'
\* (v3_subagent.py:385-387), run_subagent echoes none
echo(frame, text) ==
    IF frame.role = "primary" /\ frame.response.content[frame.i].name # "task"
    THEN display(text) ELSE console

\* (mutant) the shortened text that is echoed is also the content of the
\* tool result
Handled_stores_display(frame, out) ==
    /\ files' = out.files
    /\ todos' = out.todos
    /\ UNCHANGED result
    /\ CASE out.kind = "return" ->
              /\ stack' = SetTop(Answered(frame, display(out.text)))
              /\ console' = echo(frame, out.text)
              /\ UNCHANGED <<subagents, proc, exc, calls>>
         [] out.kind = "raise" ->
              /\ stack' = SetTop(frame)
              /\ proc' = "crashed"
              /\ exc' = out.exc
              /\ UNCHANGED <<subagents, calls, console>>
         [] out.kind = "spawn" ->
              /\ subagents' = NewRecord(subagents, out.description)
              /\ stack' = Append(SetTop([frame EXCEPT !.pc = "wait"]),
                                 Frame("delegated", out.description, Len(subagents)))
              /\ calls' = [calls EXCEPT !.delegated = 0]
              /\ UNCHANGED <<proc, exc, console>>

\* what happens when the handler of the block at hand ends with `out`:
\* its side effects take place; its text becomes the block's tool result;
\* an exception leaves every loop; the 'task' tool starts run_subagent
\* (v3_subagent.py:219-225)
Handled(frame, out) ==
    /\ files' = out.files
    /\ todos' = out.todos
    /\ UNCHANGED result
    /\ CASE out.kind = "return" ->
              /\ stack' = SetTop(Answered(frame, out.text))
              /\ console' = echo(frame, out.text)
              /\ UNCHANGED <<subagents, proc, exc, calls>>
         [] out.kind = "raise" ->
              /\ stack' = SetTop(frame)
              /\ proc' = "crashed"
              /\ exc' = out.exc
              /\ UNCHANGED <<subagents, calls, console>>
         [] out.kind = "spawn" ->
              /\ subagents' = NewRecord(subagents, out.description)
              /\ stack' = Append(SetTop([frame EXCEPT !.pc = "wait"]),
                                 Frame("delegated", out.description, Len(subagents)))
              /\ calls' = [calls EXCEPT !.delegated = 0]
              /\ UNCHANGED <<proc, exc, console>>

---------------------------------------------------------------------------
(* agent(task): the main loop.                                             *)

\* v3_subagent.py:357-372: the next turn starts; the status line is
\* printed; the service answers
MainCall ==
    /\ proc = "running"
    /\ Top.role = "primary"
    /\ Top.pc = "call"
    /\ \E r \in MainResponses :
          /\ Top.turn + 1 >= MaxMainTurns => r.stop_reason # "tool_use"
          /\ Len(subagents) + Requests(r, "task") <= MaxSubagents
          /\ Len(todos) + Requests(r, "todo_add") <= MaxTodos
          /\ stack' = SetTop([Top EXCEPT
                !.turn = @ + 1,
                !.request = [system |-> "SYSTEM_PROMPT", tools |-> main_tools,
                             messages |-> Top.messages],
                !.response = WithIds(r, <<RunOf(Top), Top.turn + 1>>),
                !.i = 1,
                !.assistant_content = <<>>,
                !.tool_results = <<>>,
                !.pc = "blocks"])
    /\ console' = print_status(todos, subagents)
    /\ calls' = [calls EXCEPT !.primary = @ + 1]
    /\ UNCHANGED <<todos, subagents, files, proc, result, exc>>

\* v3_subagent.py:374-393: one pass of `for block in response.content`
MainBlock ==
    /\ proc = "running"
    /\ Top.role = "primary"
    /\ Top.pc = "blocks"
    /\ Top.i <= Len(Top.response.content)
    /\ LET block == Top.response.content[Top.i]
           frame == [Top EXCEPT !.assistant_content = Append(@, block)] IN
       IF block.type = "text"
       THEN /\ stack' = SetTop([frame EXCEPT !.i = @ + 1])
            /\ UNCHANGED <<todos, subagents, files, proc, result, exc, calls, console>>
       ELSE Handled(frame, execute(block.name, block.input, files, todos))

\* (mutant) the main loop gives up after its first turn, as if it had a
\* turn ceiling of 1
MainEndTurn_with_turn_ceiling ==
    /\ proc = "running"
    /\ Top.role = "primary"
    /\ Top.pc = "blocks"
    /\ Top.i > Len(Top.response.content)
    /\ stack' = SetTop([Top EXCEPT
          !.messages = Append(@, [role |-> "assistant", content |-> Top.assistant_content]),
          !.pc = "returned"])
    /\ proc' = "done"
    /\ result' = <<"Agent reached max turns">>
    /\ UNCHANGED <<todos, subagents, files, exc, calls, console>>

\* v3_subagent.py:395-400: the response is recorded; the run ends or the
\* results go back to the service
MainEndTurn ==
    /\ proc = "running"
    /\ Top.role = "primary"
    /\ Top.pc = "blocks"
    /\ Top.i > Len(Top.response.content)
    /\ LET frame == [Top EXCEPT !.messages =
                        Append(@, [role |-> "assistant", content |-> Top.assistant_content])] IN
       IF Top.response.stop_reason # "tool_use"
       THEN /\ stack' = SetTop([frame EXCEPT !.pc = "returned"])
            /\ proc' = "done"
            /\ result' = FinalText(Top.response)
       ELSE /\ stack' = SetTop([frame EXCEPT
                  !.messages = Append(@, [role |-> "user", content |-> Top.tool_results]),
                  !.pc = "call"])
            /\ UNCHANGED <<proc, result>>
    /\ UNCHANGED <<todos, subagents, files, exc, calls, console>>

---------------------------------------------------------------------------
(* run_subagent(task_description): the delegated loop.                     *)

\* v3_subagent.py:227-240: the next turn starts, if the ceiling allows
SubCall ==
    /\ proc = "running"
    /\ Top.role = "delegated"
    /\ Top.pc = "call"
    /\ Top.turn < max_turns
    /\ \E r \in SubResponses(Top.turn + 1, Top.response) :
          /\ stack' = SetTop([Top EXCEPT
                !.turn = @ + 1,
                !.request = [system |-> "SUBAGENT_SYSTEM", tools |-> subagent_tools,
                             messages |-> Top.messages],
                !.response = WithIds(r, <<RunOf(Top), Top.turn + 1>>),
                !.i = 1,
                !.assistant_content = <<>>,
                !.tool_results = <<>>,
                !.pc = "blocks"])
    /\ subagents' = SetTurns(subagents, Top.subagent_id, Top.turn + 1)
    /\ calls' = [calls EXCEPT !.delegated = @ + 1]
    /\ UNCHANGED <<todos, files, proc, result, exc, console>>

\* v3_subagent.py:242-260: one pass of `for block in response.content`
SubBlock ==
    /\ proc = "running"
    /\ Top.role = "delegated"
    /\ Top.pc = "blocks"
    /\ Top.i <= Len(Top.response.content)
    /\ LET block == Top.response.content[Top.i]
           frame == [Top EXCEPT !.assistant_content = Append(@, block)] IN
       IF block.type = "tool_use"
       THEN Handled(frame, execute_delegated(block.name, block.input, files, todos))
       ELSE /\ stack' = SetTop([frame EXCEPT !.i = @ + 1])
            /\ UNCHANGED <<todos, subagents, files, proc, result, exc, calls, console>>

\* (mutant) the delegated loop appends the results without the assistant
\* message they answer
SubEndTurn_results_only ==
    /\ proc = "running"
    /\ Top.role = "delegated"
    /\ Top.pc = "blocks"
    /\ Top.i > Len(Top.response.content)
    /\ IF Top.response.stop_reason # "tool_use"
       THEN /\ subagents' = SetStatus(subagents, Top.subagent_id, "done")
            /\ stack' = ReturnToCaller(FinalText(Top.response))
       ELSE /\ stack' = SetTop([Top EXCEPT
                  !.messages = Append(@, [role |-> "user", content |-> Top.tool_results]),
                  !.pc = "call"])
            /\ UNCHANGED subagents
    /\ UNCHANGED <<todos, files, proc, result, exc, calls, console>>

\* v3_subagent.py:262-270: the response is recorded; the run ends with
\* status done or the results go back to the service
SubEndTurn ==
    /\ proc = "running"
    /\ Top.role = "delegated"
    /\ Top.pc = "blocks"
    /\ Top.i > Len(Top.response.content)
    /\ IF Top.response.stop_reason # "tool_use"
       THEN /\ subagents' = SetStatus(subagents, Top.subagent_id, "done")
            /\ stack' = ReturnToCaller(FinalText(Top.response))
       ELSE /\ stack' = SetTop([Top EXCEPT
                  !.messages = @ \o <<[role |-> "assistant", content |-> Top.assistant_content],
                                      [role |-> "user", content |-> Top.tool_results]>>,
                  !.pc = "call"])
            /\ UNCHANGED subagents
    /\ UNCHANGED <<todos, files, proc, result, exc, calls, console>>

\* (mutant) at the ceiling the delegated engine stays where it is
SubTimeout_never_returns ==
    /\ proc = "running"
    /\ Top.role = "delegated"
    /\ Top.pc = "call"
    /\ Top.turn >= max_turns
    /\ UNCHANGED vars

\* v3_subagent.py:272-273: the loop ran max_turns times
SubTimeout ==
    /\ proc = "running"
    /\ Top.role = "delegated"
    /\ Top.pc = "call"
    /\ Top.turn >= max_turns
    /\ subagents' = SetStatus(subagents, Top.subagent_id, "timeout")
    /\ stack' = ReturnToCaller(timeout_notice)
    /\ UNCHANGED <<todos, files, proc, result, exc, calls, console>>

---------------------------------------------------------------------------

\* the module is loaded and agent(task) is called (v3_subagent.py:12, 15,
\* 354-355, 412)
Init ==
    /\ todos = <<>>
    /\ subagents = <<>>
    /\ files = [p \in Paths |-> IF p = "d" THEN Dir ELSE File(<<"a", "b">>)]
    /\ stack = <<Frame("primary", "task", -1)>>
    /\ proc = "running"
    /\ result = <<>>
    /\ exc = "none"
    /\ calls = [primary |-> 0, delegated |-> 0]
    /\ console = <<>>

Next ==
    \/ MainCall
    \/ MainBlock
    \/ MainEndTurn
    \/ SubCall
    \/ SubBlock
    \/ SubEndTurn
    \/ SubTimeout

Spec == Init /\ [][Next]_vars

\* the interpreter runs one thread and goes on while there is a statement
\* to execute: a service call and a tool handler that return let the next
\* step happen
FairSpec == Spec /\ WF_vars(Next)

---------------------------------------------------------------------------
(* Vocabulary of the properties.                                           *)

Frames == {stack[k] : k \in 1..Len(stack)}

\* the correlation ids of the tool-invocation blocks of a content
ToolUseIds(content) ==
    {content[k].id : k \in {j \in 1..Len(content) : content[j].type = "tool_use"}}

\* the positions of the results of a user message that answer `id`
ResultsFor(results, id) == {k \in 1..Len(results) : results[k].tool_use_id = id}

\* message k of a history is an assistant message whose every tool
\* invocation has exactly one result in message k + 1, a user message that
\* holds no result for another id
Answered_at(messages, k) ==
    LET ids == ToolUseIds(messages[k].content) IN
    \/ ids = {}
    \/ /\ k < Len(messages)
       /\ messages[k + 1].role = "user"
       /\ \A id \in ids : Cardinality(ResultsFor(messages[k + 1].content, id)) = 1
       /\ \A j \in 1..Len(messages[k + 1].content) :
             messages[k + 1].content[j].tool_use_id \in ids

---------------------------------------------------------------------------
\* C1: in the history of every engine, every tool invocation of every
\* assistant message, the last one included, has exactly one result with
\* its id in the next user message, which holds no other result.
C1_EveryInvocationAnswered ==
    \A f \in Frames : \A k \in 1..Len(f.messages) :
        f.messages[k].role = "assistant" => Answered_at(f.messages, k)

---------------------------------------------------------------------------
\* the delegated frames of the stack
Delegated == {f \in Frames : f.role = "delegated"}

\* the positions of a frame's response whose handler has returned, with
\* the position of the result among the frame's tool results
Done(f) ==
    {k \in 1..Len(f.response.content) :
        /\ f.response.content[k].type = "tool_use"
        /\ ResultsFor(f.tool_results, f.response.content[k].id) # {}}

ResultOf(f, k) ==
    f.tool_results[CHOOSE j \in ResultsFor(f.tool_results, f.response.content[k].id) : TRUE]

\* C2: a delegated engine never starts a delegated engine: the tools sent
\* by run_subagent never contain 'task'; a 'task' invocation inside a
\* delegated run results in the text 'Unknown tool: task'; no record is
\* created during a delegated run; the engines nest at most 2 deep.
C2_NoNestedDelegation ==
    /\ Len(stack) <= 2
    /\ \A f \in Delegated :
          /\ \A k \in 1..Len(f.request.tools) : f.request.tools[k] # "task"
          /\ \A k \in Done(f) :
                f.response.content[k].name = "task"
                    => ResultOf(f, k).content = <<"Unknown tool: ", "task">>
          /\ Len(subagents) = f.subagent_id + 1

\* a delegated run was asked for 'task' and answered
C2_Witness ==
    \E f \in Delegated : \E k \in Done(f) : f.response.content[k].name = "task"

---------------------------------------------------------------------------
\* a step in which run_subagent returns to its caller
SubReturns == Len(stack') = Len(stack) - 1

\* the text run_subagent returns in such a step: the result the caller
\* gets for the 'task' invocation it waits on
Returned == LET caller == stack'[Len(stack')] IN caller.tool_results[Len(caller.tool_results)].content

\* C3: a delegated run calls the service at most 20 times; when the 20th
\* response has stop reason tool_use it returns the timeout notice with
\* its record 'timeout' and no further call; when a response has another
\* stop reason its record ends 'done'.
C3_TurnCeiling ==
    /\ [](calls.delegated <= 20)
    /\ [][SubReturns =>
            LET status == subagents'[Top.subagent_id + 1].status IN
            /\ calls' = calls
            /\ Top.response.stop_reason = "tool_use" =>
                  /\ calls.delegated = 20
                  /\ status = "timeout"
                  /\ Returned = <<"Subagent reached max turns (", "20",
                                  "). Partial work may be completed.">>
            /\ Top.response.stop_reason # "tool_use" => status = "done"]_vars

\* a run has ended at the ceiling with status timeout
C3_Witness ==
    /\ Len(stack) = 1
    /\ calls.delegated = 20
    /\ \E k \in 1..Len(subagents) : subagents[k].status = "timeout"

\* C3, second case: a run ended 'done' by its 20th response
C3_WitnessDoneAtCeiling ==
    /\ Len(stack) = 1
    /\ calls.delegated = 20
    /\ \E k \in 1..Len(subagents) : subagents[k].status = "done"

---------------------------------------------------------------------------
\* C4: an engine executes tool handlers only for a response whose stop
\* reason is tool_use; for a response with another stop reason no handler
\* has run, so it holds no tool result and waits for no delegated run.
C4_NoHandlerOnFinalResponse ==
    \A f \in Frames :
        (f.pc \in {"blocks", "wait", "returned"} /\ f.response.stop_reason # "tool_use")
            => (f.tool_results = <<>> /\ f.pc # "wait")

---------------------------------------------------------------------------
\* C5: no tool execution raises past the engine: whatever tool name and
\* inputs the service sends, the handler returns a text and the loop
\* goes on.
C5_NoExceptionLeavesTheLoop == proc # "crashed"

---------------------------------------------------------------------------
Running == {k \in 1..Len(subagents) : subagents[k].status = "running"}

\* C6: delegation is blocking: at most one record is 'running'; while the
\* primary engine waits in a 'task' invocation it calls the service no
\* further and its history stays as it is; when run_subagent returns, the
\* record of the run is 'done' or 'timeout'.
C6_DelegationBlocks ==
    /\ [](Cardinality(Running) <= 1)
    /\ [](Len(stack) >= 2 <=> stack[1].pc = "wait")
    /\ [][Len(stack) >= 2 =>
            /\ calls'.primary = calls.primary
            /\ stack'[1].messages = stack[1].messages
            /\ stack'[1].turn = stack[1].turn]_vars
    /\ [][SubReturns => subagents'[Top.subagent_id + 1].status \in {"done", "timeout"}]_vars

\* the second 'task' invocation of one primary response is running, the
\* first has returned
C6_Witness ==
    /\ Len(stack) = 2
    /\ Requests(stack[1].response, "task") = 2
    /\ stack[1].i = 2
    /\ Len(subagents) = 2
    /\ stack[2].turn >= 1

---------------------------------------------------------------------------
\* the run an id comes from
RunOfId(id) == id[1]

\* every id in messages 2.. of a history comes from run `run`
OwnMessages(messages, run) ==
    \A k \in 2..Len(messages) : \A j \in 1..Len(messages[k].content) :
        LET b == messages[k].content[j] IN
        /\ b.type = "tool_use" => RunOfId(b.id) = run
        /\ b.type = "tool_result" => RunOfId(b.tool_use_id) = run

\* C7: a delegated engine is isolated from its caller's conversation: its
\* history starts with one user message, the description of the 'task'
\* invocation, and that alone is its first request; after it come only
\* the responses to its own requests and the results of its own tool
\* invocations, so its requests depend on nothing else; and the caller's
\* history holds no message of the delegated run.
C7_Isolation ==
    /\ \A f \in Delegated :
          LET caller == stack[1]
              description == caller.response.content[caller.i].input.description IN
          /\ f.messages[1] = [role |-> "user", content |-> description]
          /\ f.turn = 1 => f.request.messages = <<[role |-> "user", content |-> description]>>
          /\ f.turn >= 1 => Len(f.request.messages) = 2 * f.turn - 1
          /\ OwnMessages(f.messages, RunOf(f))
    /\ OwnMessages(stack[1].messages, 0)
    /\ stack[1].messages[1] = [role |-> "user", content |-> "task"]

\* a delegated run sends its second request while its caller has a history
\* of earlier turns
C7_Witness ==
    \E f \in Delegated :
        /\ f.turn = 2
        /\ Len(f.request.messages) = 3
        /\ Len(stack[1].messages) >= 3

---------------------------------------------------------------------------
RECURSIVE ConcatTexts(_)
\* the texts of the text blocks of a content, in order, one after another
ConcatTexts(content) ==
    IF content = <<>> THEN <<>>
    ELSE (IF Head(content).type = "text" THEN Head(content).text ELSE <<>>)
         \o ConcatTexts(Tail(content))

\* C8: a Subagent Record goes running -> done or running -> timeout and
\* nowhere else: it is created 'running' with no service call made yet; a
\* response with a stop reason other than tool_use makes it 'done' and the
\* run returns the texts of that response; the exhausted ceiling makes it
\* 'timeout' and the run returns the max-turns notice.
C8_RecordLifecycle ==
    /\ [](\A k \in 1..Len(subagents) : subagents[k].status \in {"running", "done", "timeout"})
    /\ [](\A f \in Delegated :
            (f.pc = "call" /\ f.turn >= 1) => f.response.stop_reason = "tool_use")
    /\ [][\A k \in 1..Len(subagents') :
            IF k <= Len(subagents)
            THEN \/ subagents'[k].status = subagents[k].status
                 \/ /\ subagents[k].status = "running"
                    /\ subagents'[k].status \in {"done", "timeout"}
                    /\ SubReturns
                    /\ k = Top.subagent_id + 1
            ELSE /\ subagents'[k] = [task |-> stack'[Len(stack')].messages[1].content,
                                     status |-> "running", turns |-> 0]
                 /\ stack'[Len(stack')].turn = 0
                 /\ calls'.delegated = 0]_vars
    /\ [][SubReturns =>
            LET status == subagents'[Top.subagent_id + 1].status IN
            /\ subagents[Top.subagent_id + 1].status = "running"
            /\ Top.pc = "blocks" =>
                  /\ Top.response.stop_reason # "tool_use"
                  /\ status = "done"
                  /\ Returned = ConcatTexts(Top.response.content)
            /\ Top.pc = "call" =>
                  /\ Top.turn = 20
                  /\ status = "timeout"
                  /\ Returned = <<"Subagent reached max turns (", "20",
                                  "). Partial work may be completed.">>]_vars

\* one record ended done with a text of two blocks returned, another
\* ended timeout
C8_Witness ==
    /\ Len(subagents) = 2
    /\ subagents[1].status = "timeout"
    /\ subagents[2].status = "done"
    /\ Len(stack) = 1
    /\ Len(stack[1].tool_results) = 2
    /\ stack[1].tool_results[2].content = <<"re", "port">>

---------------------------------------------------------------------------
\* C9: a Subagent Record changes only from inside its own run: a record
\* that is 'done' or 'timeout' never changes again, a delegated run
\* changes no record but its own, the primary engine changes none, and
\* the registry only grows at its end, so every record keeps its index.
C9_RecordFrame ==
    /\ [](\A f \in Delegated :
            /\ f.subagent_id + 1 <= Len(subagents)
            /\ subagents[f.subagent_id + 1].task = f.messages[1].content)
    /\ [][/\ Len(subagents') >= Len(subagents)
          /\ Top.role = "delegated" => Len(subagents') = Len(subagents)
          /\ \A k \in 1..Len(subagents) :
                /\ subagents'[k].task = subagents[k].task
                /\ subagents[k].status \in {"done", "timeout"} => subagents'[k] = subagents[k]
                /\ (Top.role # "delegated" \/ k # Top.subagent_id + 1)
                      => subagents'[k] = subagents[k]]_vars

\* a second delegated run calls the service while the first record is final
C9_Witness ==
    /\ Len(subagents) = 2
    /\ subagents[1].status \in {"done", "timeout"}
    /\ subagents[2].status = "running"
    /\ subagents[2].turns >= 1

---------------------------------------------------------------------------
\* the todo_update invocation the primary engine is about to execute, if any
AtUpdate ==
    /\ proc = "running"
    /\ Top.role = "primary"
    /\ Top.pc = "blocks"
    /\ Top.i <= Len(Top.response.content)
    /\ Top.response.content[Top.i].type = "tool_use"
    /\ Top.response.content[Top.i].name = "todo_update"
    /\ Has(Top.response.content[Top.i].input, "index")
    /\ Has(Top.response.content[Top.i].input, "status")
    /\ Top.response.content[Top.i].input.index.type = "integer"

Marker(status) ==
    CASE status = "pending" -> "[ ]" [] status = "in_progress" -> "[~]" [] status = "done" -> "[x]"

\* C10: todo_update(index, status) fails with the invalid-index error iff
\* index < 0 or index >= the number of records; a failed update changes no
\* record; a successful one changes the status of the record at that
\* position and nothing else, and todo_list then shows that status there.
C10_TodoUpdate ==
    [][AtUpdate =>
        LET index == Top.response.content[Top.i].input.index.value
            status == Top.response.content[Top.i].input.status
            after == stack'[Len(stack')]
            text == after.tool_results[Len(after.tool_results)].content
            failed == text[1] = "Error: Invalid index "
            listing == todo_list(NoInput, files', todos').text IN
        /\ failed <=> (index < 0 \/ index >= Len(todos))
        /\ failed => todos' = todos
        /\ ~failed =>
              /\ text = <<"Updated task ", ToString(index), " to ", status>>
              /\ Len(todos') = Len(todos)
              /\ todos'[index + 1] = [task |-> todos[index + 1].task, status |-> status]
              /\ \A k \in 1..Len(todos) : k # index + 1 => todos'[k] = todos[k]
              /\ status \in {"pending", "in_progress", "done"} =>
                    SubSeq(listing, 6 * index + 1, 6 * index + 5)
                        = <<ToString(index), ". ", Marker(status), " ", todos[index + 1].task>>]_vars

\* the second of two records was updated, the first left as it was
C10_Witness ==
    /\ todos = <<[task |-> "t1", status |-> "pending"], [task |-> "t2", status |-> "in_progress"]>>
    /\ Len(stack[1].tool_results) >= 3
    /\ stack[1].tool_results[3].content = <<"Updated task ", "1", " to ", "in_progress">>

\* C10, failing case: an update was refused
C10_WitnessRefused ==
    /\ Len(todos) = 1
    /\ \E k \in 1..Len(stack[1].tool_results) :
          stack[1].tool_results[k].content[1] = "Error: Invalid index "

---------------------------------------------------------------------------
\* the todo_add invocation the primary engine is about to execute, if any
AtAdd ==
    /\ proc = "running"
    /\ Top.role = "primary"
    /\ Top.pc = "blocks"
    /\ Top.i <= Len(Top.response.content)
    /\ Top.response.content[Top.i].type = "tool_use"
    /\ Top.response.content[Top.i].name = "todo_add"
    /\ Has(Top.response.content[Top.i].input, "task")

\* C11: todo_add(task) appends exactly one record, 'pending' with the
\* given description, returns the number of records before the call as
\* its position, and leaves every existing record as it was; and in every
\* step of the program the task list does not shrink and every record
\* keeps its position and its description.
C11_TodoAdd ==
    /\ [][AtAdd =>
            LET task == Top.response.content[Top.i].input.task
                after == stack'[Len(stack')]
                text == after.tool_results[Len(after.tool_results)].content IN
            /\ Len(todos') = Len(todos) + 1
            /\ todos'[Len(todos) + 1] = [task |-> task, status |-> "pending"]
            /\ \A k \in 1..Len(todos) : todos'[k] = todos[k]
            /\ text = <<"Added task ", ToString(Len(todos)), ": ", task>>]_vars
    /\ [][/\ Len(todos') >= Len(todos)
          /\ \A k \in 1..Len(todos) : todos'[k].task = todos[k].task]_vars

\* a second record was added behind the first and got position 1
C11_Witness ==
    /\ Len(todos) = 2
    /\ todos[1].task = "t1"
    /\ todos[2] = [task |-> "t2", status |-> "pending"]
    /\ Len(stack[1].tool_results) = 2
    /\ stack[1].tool_results[2].content = <<"Added task ", "1", ": ", "t2">>

---------------------------------------------------------------------------
\* C12: in every reachable state the status of every task record is one of
\* pending, in_progress, done, whatever status the service passes to
\* todo_update.
C12_StatusInEnum ==
    \A k \in 1..Len(todos) : todos[k].status \in {"pending", "in_progress", "done"}

---------------------------------------------------------------------------
\* the todo_list invocation the primary engine is about to execute, if any
AtList ==
    /\ proc = "running"
    /\ Top.role = "primary"
    /\ Top.pc = "blocks"
    /\ Top.i <= Len(Top.response.content)
    /\ Top.response.content[Top.i].type = "tool_use"
    /\ Top.response.content[Top.i].name = "todo_list"

\* the lines of a text: its pieces between the line breaks
RECURSIVE Lines(_)
Lines(text) ==
    IF \A k \in 1..Len(text) : text[k] # "\n" THEN <<text>>
    ELSE LET k == CHOOSE j \in 1..Len(text) :
                     text[j] = "\n" /\ \A h \in 1..(j - 1) : text[h] # "\n" IN
         <<SubSeq(text, 1, k - 1)>> \o Lines(SubSeq(text, k + 1, Len(text)))

\* C13: todo_list on no record returns 'No tasks yet.' and never an empty
\* text; on n > 0 records it returns n lines in position order, line i
\* holding index i, the marker of the status of record i and the
\* description of record i; todo_list changes no record.
C13_TodoList ==
    [][AtList =>
        LET after == stack'[Len(stack')]
            text == after.tool_results[Len(after.tool_results)].content
            lines == Lines(text) IN
        /\ todos' = todos
        /\ text # <<>>
        /\ todos = <<>> => text = <<"No tasks yet.">>
        /\ todos # <<>> =>
              /\ Len(lines) = Len(todos)
              /\ \A i \in 0..(Len(todos) - 1) :
                    LET line == lines[i + 1] IN
                    /\ Len(line) = 5
                    /\ line[1] = ToString(i)
                    /\ line[2] = ". "
                    /\ todos[i + 1].status \in {"pending", "in_progress", "done"}
                          => line[3] = Marker(todos[i + 1].status)
                    /\ line[4] = " "
                    /\ line[5] = todos[i + 1].task]_vars

\* two records, the second in progress, were listed
C13_Witness ==
    /\ Len(stack[1].tool_results) = 4
    /\ stack[1].tool_results[4].content =
          <<"0", ". ", "[ ]", " ", "t1", "\n", "1", ". ", "[~]", " ", "t2">>

\* C13, empty case: the list was asked for before any record existed
C13_WitnessSentinel ==
    /\ todos = <<>>
    /\ Len(stack[1].tool_results) = 1
    /\ stack[1].tool_results[1].content = <<"No tasks yet.">>

---------------------------------------------------------------------------
\* the tool names an engine's last request offered to the service
Scope(f) == {f.request.tools[k] : k \in 1..Len(f.request.tools)}

\* the engine at work is about to execute an invocation of a tool that is
\* not in its scope
AtUnknown ==
    /\ proc = "running"
    /\ Top.pc = "blocks"
    /\ Top.i <= Len(Top.response.content)
    /\ Top.response.content[Top.i].type = "tool_use"
    /\ Top.response.content[Top.i].name \notin Scope(Top)

\* the invocations of message k of a history that name a tool outside
\* `scope` are answered in message k + 1 by the unknown-tool text
UnknownAnswered(messages, k, scope) ==
    \A j \in 1..Len(messages[k].content) :
        LET b == messages[k].content[j] IN
        (b.type = "tool_use" /\ b.name \notin scope) =>
            \E h \in 1..Len(messages[k + 1].content) :
                /\ messages[k + 1].content[h].tool_use_id = b.id
                /\ messages[k + 1].content[h].content = <<"Unknown tool: ", b.name>>

\* C14: an invocation of a tool outside the engine's scope results in
\* 'Unknown tool: <name>' and changes neither task list, registry nor
\* files; the engine goes on to the next block of the response, and when it
\* calls the service next every invocation of the response is answered.
C14_UnknownTool ==
    /\ [][AtUnknown =>
            LET block == Top.response.content[Top.i]
                after == stack'[Len(stack')] IN
            /\ Len(stack') = Len(stack)
            /\ after.tool_results =
                  Append(Top.tool_results,
                         [type |-> "tool_result", tool_use_id |-> block.id,
                          content |-> <<"Unknown tool: ", block.name>>])
            /\ todos' = todos
            /\ subagents' = subagents
            /\ files' = files
            /\ proc' = "running"
            /\ after.pc = "blocks"
            /\ after.i = Top.i + 1
            /\ after.response = Top.response]_vars
    /\ [](\A f \in Frames :
            (f.pc = "call" /\ f.turn >= 1) =>
                LET n == Len(f.messages) IN
                /\ f.messages[n - 1] = [role |-> "assistant", content |-> f.response.content]
                /\ f.messages[n].role = "user"
                /\ Len(f.messages[n].content) =
                      Cardinality(ToolUseIds(f.response.content))
                /\ UnknownAnswered(f.messages, n - 1, Scope(f)))

\* the primary engine answered 'deploy', executed the bash invocation
\* after it and is about to call the service again
C14_Witness ==
    /\ stack[1].pc = "call"
    /\ Len(stack[1].messages) = 3
    /\ Len(stack[1].messages[3].content) = 2
    /\ stack[1].messages[3].content[1].content = <<"Unknown tool: ", "deploy">>
    /\ stack[1].messages[3].content[2].content = <<"h", "i">>

\* C14, delegated case: a delegated engine answered three task-list
\* invocations as unknown and is about to call the service again
C14_WitnessDelegated ==
    \E f \in Delegated :
        /\ f.pc = "call"
        /\ f.turn = 1
        /\ Len(f.messages[3].content) = 3
        /\ f.messages[3].content[3].content = <<"Unknown tool: ", "todo_list">>

---------------------------------------------------------------------------
\* C15: when run_subagent returns, the text it returns (the texts of the
\* delegated run's last response, or the max-turns notice) becomes the
\* content of the result with the id of the 'task' invocation the caller
\* waits on, and the caller goes on with its next block, after a timeout
\* as after a 'done' run; the results a primary turn has gathered stay as
\* they are and make up the user message the turn appends before the next
\* service call.
C15_DelegationResult ==
    /\ [][SubReturns =>
            LET caller == stack[Len(stack) - 1]
                after == stack'[Len(stack')]
                block == caller.response.content[caller.i]
                outcome == IF subagents'[Top.subagent_id + 1].status = "timeout"
                           THEN <<"Subagent reached max turns (", "20",
                                  "). Partial work may be completed.">>
                           ELSE ConcatTexts(Top.response.content) IN
            /\ block.type = "tool_use"
            /\ block.name = "task"
            /\ after = [caller EXCEPT
                          !.tool_results =
                              Append(@, [type |-> "tool_result", tool_use_id |-> block.id,
                                         content |-> outcome]),
                          !.i = @ + 1,
                          !.pc = "blocks"]
            /\ proc' = "running"]_vars
    /\ [][stack'[1].turn = stack[1].turn =>
            /\ Len(stack'[1].tool_results) >= Len(stack[1].tool_results)
            /\ SubSeq(stack'[1].tool_results, 1, Len(stack[1].tool_results))
                  = stack[1].tool_results]_vars
    /\ [][(stack[1].pc = "blocks" /\ stack'[1].pc = "call") =>
            /\ stack[1].response.stop_reason = "tool_use"
            /\ stack'[1].messages =
                  stack[1].messages
                     \o <<[role |-> "assistant", content |-> stack[1].response.content],
                          [role |-> "user", content |-> stack[1].tool_results]>>]_vars

\* the primary engine is about to call the service again with the
\* max-turns notice as the result of its 'task' invocation
C15_Witness ==
    /\ Len(stack) = 1
    /\ stack[1].pc = "call"
    /\ Len(stack[1].messages) = 3
    /\ stack[1].messages[2].content[1].type = "tool_use"
    /\ stack[1].messages[2].content[1].name = "task"
    /\ stack[1].messages[3].content[1].tool_use_id = stack[1].messages[2].content[1].id
    /\ stack[1].messages[3].content[1].content =
          <<"Subagent reached max turns (", "20", "). Partial work may be completed.">>

\* C15, done case: the result of the 'task' invocation is the final text
\* of the delegated run
C15_WitnessDone ==
    /\ Len(stack) = 1
    /\ stack[1].pc = "call"
    /\ Len(stack[1].messages) = 3
    /\ stack[1].messages[2].content[1].type = "tool_use"
    /\ stack[1].messages[2].content[1].name = "task"
    /\ stack[1].messages[3].content[1].content = <<"re", "port">>

---------------------------------------------------------------------------
TodoTools == {"todo_add", "todo_update", "todo_list"}

\* C16: a delegated run never changes the task list: from the step that
\* starts run_subagent to the step in which it returns the task list stays
\* as it is, and an invocation of todo_add, todo_update or todo_list inside
\* a delegated run results in 'Unknown tool: <name>'.
C16_DelegatedKeepsTodos ==
    /\ [][(Len(stack) >= 2 \/ Len(stack') >= 2) => todos' = todos]_vars
    /\ [](\A f \in Delegated :
            /\ \A k \in 1..Len(f.request.tools) : f.request.tools[k] \notin TodoTools
            /\ \A k \in Done(f) :
                  f.response.content[k].name \in TodoTools
                      => ResultOf(f, k).content
                            = <<"Unknown tool: ", f.response.content[k].name>>)

\* a delegated run was asked for todo_add, todo_update and todo_list while
\* the task list held a pending record, and answered all three
C16_Witness ==
    /\ todos = <<[task |-> "t1", status |-> "pending"]>>
    /\ \E f \in Delegated :
          /\ Cardinality(Done(f)) = 3
          /\ \A k \in Done(f) : f.response.content[k].name \in TodoTools

---------------------------------------------------------------------------
RECURSIVE IdsInOrder(_)
\* the correlation ids of the tool invocations of a content, in its order
IdsInOrder(content) ==
    IF content = <<>> THEN <<>>
    ELSE (IF Head(content).type = "tool_use" THEN <<Head(content).id>> ELSE <<>>)
         \o IdsInOrder(Tail(content))

\* the ids the results of a user message answer, in its order
AnsweredIds(results) == [k \in 1..Len(results) |-> results[k].tool_use_id]

\* C17: within a turn the invocations are executed one at a time in the
\* order of the response, a delegated run ending before the next starts,
\* and each exactly once: the results gathered so far answer the blocks
\* passed so far, one each and in their order, and the position in the
\* response only moves on by one, never while the engine waits for a
\* delegated run; the assistant message with the whole response content is
\* appended before the user message, whose results are in invocation order.
C17_InvocationOrder ==
    /\ [](\A f \in Frames :
            /\ (f.pc = "blocks" /\ proc # "crashed") =>
                  /\ f.assistant_content = SubSeq(f.response.content, 1, f.i - 1)
                  /\ AnsweredIds(f.tool_results) = IdsInOrder(f.assistant_content)
            /\ f.pc = "wait" =>
                  /\ f.assistant_content = SubSeq(f.response.content, 1, f.i)
                  /\ AnsweredIds(f.tool_results)
                        = IdsInOrder(SubSeq(f.response.content, 1, f.i - 1))
            /\ \A k \in 1..Len(f.messages) :
                  f.messages[k].role = "assistant" =>
                      \/ k = Len(f.messages)
                      \/ /\ f.messages[k + 1].role = "user"
                         /\ AnsweredIds(f.messages[k + 1].content)
                               = IdsInOrder(f.messages[k].content))
    /\ [][\A k \in 1..Len(stack) :
            (k <= Len(stack') /\ stack'[k].turn = stack[k].turn) =>
                /\ stack'[k].response = stack[k].response
                /\ stack'[k].i \in {stack[k].i, stack[k].i + 1}
                /\ (k < Len(stack) /\ k < Len(stack')) => stack'[k] = stack[k]
                /\ Len(stack'[k].messages) > Len(stack[k].messages) =>
                      /\ stack[k].i = Len(stack[k].response.content) + 1
                      /\ stack'[k].messages[Len(stack[k].messages) + 1]
                            = [role |-> "assistant", content |-> stack[k].response.content]]_vars

\* the primary engine ran a delegated run between a todo_add and a
\* todo_update of one response and holds the three results in that order
C17_Witness ==
    /\ Len(stack) = 1
    /\ stack[1].pc = "call"
    /\ Len(stack[1].messages) = 3
    /\ Len(stack[1].messages[3].content) = 3
    /\ stack[1].messages[3].content[1].content = <<"Added task ", "0", ": ", "t1">>
    /\ stack[1].messages[3].content[2].content = <<"report">>
    /\ stack[1].messages[3].content[3].content = <<"Updated task ", "0", " to ", "done">>
    /\ todos = <<[task |-> "t1", status |-> "done"]>>

---------------------------------------------------------------------------
\* C18: the primary engine has no turn ceiling: after every response with
\* stop reason tool_use it is able to call the service again, whatever the
\* number of turns made, and makes one call per turn; it completes only by
\* a response with another stop reason, at the first such response, and
\* its outcome is never a turn-limit outcome; so, the service answering at
\* last with such a response and every handler returning, the primary run
\* completes.
C18_PrimaryRunsUntilFinal ==
    /\ [](calls.primary = stack[1].turn)
    /\ []((proc = "running" /\ Len(stack) = 1 /\ stack[1].pc = "call") =>
            /\ stack[1].turn >= 1 => stack[1].response.stop_reason = "tool_use"
            /\ ENABLED MainCall)
    /\ [](proc = "done" =>
            /\ stack[1].pc = "returned"
            /\ stack[1].response.stop_reason # "tool_use"
            /\ result = ConcatTexts(stack[1].response.content))
    /\ [][(stack[1].pc = "blocks" /\ stack[1].i > Len(stack[1].response.content)
              /\ stack[1].response.stop_reason # "tool_use") => proc' = "done"]_vars
    /\ <>(proc \in {"done", "crashed"})

\* the primary engine has completed in its last turn the service allows,
\* after turns that asked for tools
C18_Witness ==
    /\ proc = "done"
    /\ stack[1].turn = MaxMainTurns
    /\ calls.primary = MaxMainTurns
    /\ Len(stack[1].messages) = 2 * MaxMainTurns

---------------------------------------------------------------------------
\* C19: every delegated run terminates, whatever the service answers: a
\* delegated engine makes at most 20 turns, and, every service call and
\* every handler returning, a run that has started returns: the primary
\* engine waits exactly while a delegated engine is on the stack, a record
\* is 'running' only while its run is, 'done' or 'timeout' once it has
\* returned, and time and again no delegated engine is on the stack.
C19_DelegatedRunTerminates ==
    /\ [](\A f \in Delegated : f.turn <= 20)
    /\ [](Len(stack) >= 2 <=> stack[1].pc = "wait")
    /\ [](\A k \in 1..Len(subagents) :
            \/ subagents[k].status \in {"done", "timeout"}
            \/ /\ subagents[k].status = "running"
               /\ k = Len(subagents)
               /\ Len(stack) >= 2 \/ proc = "crashed")
    /\ []<>(Len(stack) = 1 \/ proc = "crashed")

\* the service asked for tools in all 20 turns of a run, and the run has
\* returned to the primary engine
C19_Witness ==
    /\ Len(stack) = 1
    /\ stack[1].pc = "blocks"
    /\ subagents # <<>>
    /\ subagents[Len(subagents)] = [task |-> "d1", status |-> "timeout", turns |-> 20]
    /\ stack[1].tool_results # <<>>

---------------------------------------------------------------------------
\* C20: the value an engine returns on completion is the texts of the text
\* blocks of its completing response, joined in their order: invocation
\* blocks add nothing, texts of earlier responses are not in it, and a
\* completing response without a text block gives the empty text.
C20_ReturnValue ==
    /\ [][(proc = "running" /\ proc' = "done") =>
            /\ Top.role = "primary"
            /\ Top.response.stop_reason # "tool_use"
            /\ result' = ConcatTexts(Top.response.content)
            /\ (\A k \in 1..Len(Top.response.content) :
                    Top.response.content[k].type # "text") => result' = <<>>]_vars
    /\ [][(SubReturns /\ Top.pc = "blocks") =>
            /\ Top.response.stop_reason # "tool_use"
            /\ Returned = ConcatTexts(Top.response.content)
            /\ (\A k \in 1..Len(Top.response.content) :
                    Top.response.content[k].type # "text") => Returned = <<>>]_vars

\* the primary engine said 'plan' in a turn that asked for tools and
\* completed with the two texts of its last response
C20_Witness ==
    /\ proc = "done"
    /\ result = <<"all ", "done">>
    /\ stack[1].messages[2].content[1] = [type |-> "text", text |-> <<"plan">>]

\* C20, invocation blocks: the completing response held a text and a tool
\* invocation
C20_WitnessWithToolUse ==
    /\ proc = "done"
    /\ result = <<"cut">>
    /\ Len(stack[1].response.content) = 2

\* C20, empty case: a delegated run completed by a response without text
C20_WitnessEmpty ==
    /\ Len(stack) = 1
    /\ stack[1].pc = "blocks"
    /\ subagents # <<>>
    /\ subagents[Len(subagents)].status = "done"
    /\ stack[1].tool_results # <<>>
    /\ stack[1].tool_results[Len(stack[1].tool_results)].content = <<>>

---------------------------------------------------------------------------
\* a step in which the primary engine starts a turn, printing the status
\* summary on its way
PrimaryTurnStarts == calls'.primary # calls.primary

\* the numbers the summary is about
DoneCount == Cardinality({k \in 1..Len(todos) : todos[k].status = "done"})
RunningCount == Cardinality({k \in 1..Len(subagents) : subagents[k].status = "running"})

\* the two parts of the summary
TodosPart == <<"Todos: ", ToString(DoneCount), "/", ToString(Len(todos))>>
SubagentsPart ==
    <<"Subagents: ", ToString(Len(subagents)), " (", ToString(RunningCount), " running)">>

\* C21 as stated: the summary is omitted iff both the task list and the
\* registry are empty; otherwise it reports done/total of the task records
\* and count/running of the Subagent Records; producing it changes neither
\* collection.
C21_SummaryReportsBoth ==
    [][PrimaryTurnStarts =>
        /\ todos' = todos
        /\ subagents' = subagents
        /\ console' = <<>> <=> (todos = <<>> /\ subagents = <<>>)
        /\ console' # <<>> =>
              console' = <<"  ">> \o TodosPart \o <<" | ">> \o SubagentsPart]_vars

\* C21 (amended): the summary is omitted iff both collections are empty;
\* otherwise it reports done/total if the task list is not empty and
\* count/running if the registry is not empty, the two separated by ' | '
\* when both are there; producing it changes neither collection.
C21_StatusSummary ==
    [][PrimaryTurnStarts =>
        /\ todos' = todos
        /\ subagents' = subagents
        /\ console' = <<>> <=> (todos = <<>> /\ subagents = <<>>)
        /\ console' # <<>> =>
              console' = <<"  ">>
                           \o (IF todos # <<>> THEN TodosPart ELSE <<>>)
                           \o (IF todos # <<>> /\ subagents # <<>> THEN <<" | ">> ELSE <<>>)
                           \o (IF subagents # <<>> THEN SubagentsPart ELSE <<>>)]_vars

\* a turn started with one task record, done, and one Subagent Record
C21_Witness ==
    /\ stack[1].turn = 2
    /\ console = <<"  ", "Todos: ", "1", "/", "1", " | ",
                   "Subagents: ", "1", " (", "0", " running)">>

\* C21, one part only: a turn started with task records and no Subagent
\* Record
C21_WitnessTodosOnly ==
    /\ stack[1].turn = 2
    /\ console = <<"  ", "Todos: ", "0", "/", "2">>

---------------------------------------------------------------------------
\* the engine at work is about to execute an edit invocation, with all its
\* inputs, on a path that is a file
AtEdit ==
    /\ proc = "running"
    /\ Top.pc = "blocks"
    /\ Top.i <= Len(Top.response.content)
    /\ Top.response.content[Top.i].type = "tool_use"
    /\ Top.response.content[Top.i].name = "edit"
    /\ \A k \in {"path", "old_string", "new_string"} : Has(Top.response.content[Top.i].input, k)
    /\ files[Top.response.content[Top.i].input.path].kind = "file"

\* the start positions at which `old` occurs in `content`, overlapping
\* occurrences included
Occurrences(content, old) == {i \in 1..(Len(content) + 1) : MatchAt(content, old, i)}

\* C22: the edit handler substitutes iff the target occurs at exactly one
\* start position of the file (overlapping occurrences counted); with no
\* occurrence it returns the not-found error, with two or more the
\* ambiguity error, the file staying as it was in both cases; on success
\* that one occurrence is replaced and the rest of the file is unchanged.
C22_EditExactlyOnce ==
    [][AtEdit =>
        LET input == Top.response.content[Top.i].input
            content == files[input.path].content
            occ == Occurrences(content, input.old_string)
            after == stack'[Len(stack')]
            text == after.tool_results[Len(after.tool_results)].content IN
        /\ occ = {} =>
              /\ text = <<"Error: old_string not found in ", input.path>>
              /\ files' = files
        /\ Cardinality(occ) >= 2 =>
              /\ text[1] = "Error: old_string found "
              /\ files' = files
        /\ Cardinality(occ) = 1 =>
              LET i == CHOOSE j \in occ : TRUE IN
              /\ text = <<"Successfully edited ", input.path>>
              /\ files' = [files EXCEPT ![input.path] =
                    File(SubSeq(content, 1, i - 1) \o input.new_string
                         \o SubSeq(content, i + Len(input.old_string), Len(content)))]]_vars

---------------------------------------------------------------------------
\* the primary engine is about to execute a bash invocation whose command
\* ends in time with some output
AtBash ==
    /\ proc = "running"
    /\ Top.role = "primary"
    /\ Top.pc = "blocks"
    /\ Top.i <= Len(Top.response.content)
    /\ Top.response.content[Top.i].type = "tool_use"
    /\ Top.response.content[Top.i].name = "bash"
    /\ Has(Top.response.content[Top.i].input, "command")
    /\ ~Shell(Top.response.content[Top.i].input.command, files).timeout
    /\ Shell(Top.response.content[Top.i].input.command, files).out # <<>>

\* the results in message k + 1 of a history that answer the invocations
\* of `command` in message k
ResultsOfCommand(messages, k, command) ==
    {r \in {messages[k + 1].content[h] : h \in 1..Len(messages[k + 1].content)} :
        \E j \in 1..Len(messages[k].content) :
            LET b == messages[k].content[j] IN
            /\ b.type = "tool_use"
            /\ b.name = "bash"
            /\ b.input = [command |-> command]
            /\ b.id = r.tool_use_id}

\* C23: the content of a tool result is the whole text the handler
\* returned, whatever its length: the output of a command is stored whole
\* while the console gets it whole up to 500 characters and else its first
\* 500 characters and '...'; in the history sent to the service the result
\* of a command that prints 501 characters holds the 501 characters.
C23_FullTextStored ==
    /\ [][AtBash =>
            LET output == Shell(Top.response.content[Top.i].input.command, files).out
                after == stack'[Len(stack')]
                stored == after.tool_results[Len(after.tool_results)] IN
            /\ Len(after.tool_results) = Len(Top.tool_results) + 1
            /\ stored.tool_use_id = Top.response.content[Top.i].id
            /\ stored.content = output
            /\ Len(output) <= 500 => console' = output
            /\ Len(output) > 500 =>
                  /\ Len(console') = 501
                  /\ \A k \in 1..500 : console'[k] = output[k]
                  /\ console'[501] = "..."]_vars
    /\ [](\A k \in 1..(Len(stack[1].messages) - 1) :
            stack[1].messages[k].role = "assistant" =>
                \A r \in ResultsOfCommand(stack[1].messages, k, "printf %0501d 0") :
                    /\ Len(r.content) = 501
                    /\ \A h \in 1..501 : r.content[h] = "0")

\* the primary engine is about to send a result of 501 characters, which
\* the console showed shortened, and a short one, which it showed whole
C23_Witness ==
    /\ stack[1].pc = "call"
    /\ Len(stack[1].messages) = 3
    /\ Len(stack[1].messages[3].content) = 2
    /\ Len(stack[1].messages[3].content[1].content) = 501
    /\ stack[1].messages[3].content[2].content = <<"h", "i">>
    /\ console = <<"h", "i">>

\* C23, the echo: the console shows 500 characters and '...' of a result
\* of 501 characters
C23_WitnessShortened ==
    /\ Len(console) = 501
    /\ console[501] = "..."
    /\ Len(stack[1].tool_results) = 1
    /\ Len(stack[1].tool_results[1].content) = 501

---------------------------------------------------------------------------
(* The earliest variant of the loop, v0_minimal.py, as a function of the   *)
(* responses the service gives it.                                         *)

\* v0_minimal.py:25-31: bash alone, run without a time limit and without a
\* try, its output returned as it is
v0_execute(tool_name, tool_input, fs) ==
    IF tool_name = "bash"
    THEN IF ~Has(tool_input, "command") THEN Raise("KeyError", fs, <<>>)
         ELSE LET run == Shell(tool_input.command, fs) IN Return(run.out, run.files, <<>>)
    ELSE Return(<<"Unknown tool: ", tool_name>>, fs, <<>>)

RECURSIVE v0_blocks(_, _, _, _)
\* v0_minimal.py:50-58: `for block in response.content`, from block i on;
\* `log` holds the ids of the invocations executed so far
v0_blocks(content, i, fs, log) ==
    IF i > Len(content) THEN [kind |-> "return", files |-> fs, log |-> log]
    ELSE IF content[i].type # "tool_use" THEN v0_blocks(content, i + 1, fs, log)
    ELSE LET out == v0_execute(content[i].name, content[i].input, fs)
             executed == Append(log, content[i].id) IN
         IF out.kind = "raise" THEN [kind |-> "raise", files |-> out.files, log |-> executed]
         ELSE v0_blocks(content, i + 1, out.files, executed)

RECURSIVE v0_agent(_, _, _, _)
\* v0_minimal.py:34-61: agent(task) answered by responses[k], responses[k+1],
\* ...: the stop reason is looked at before any block is executed
v0_agent(responses, k, fs, log) ==
    IF k > Len(responses)
    THEN [kind |-> "call", result |-> <<>>, files |-> fs, executed |-> log]
    ELSE IF responses[k].stop_reason # "tool_use"
    THEN [kind |-> "return", result |-> FinalText(responses[k]), files |-> fs,
          executed |-> log]
    ELSE LET blocks == v0_blocks(responses[k].content, 1, fs, log) IN
         IF blocks.kind = "raise"
         THEN [kind |-> "raise", result |-> <<>>, files |-> blocks.files,
               executed |-> blocks.log]
         ELSE v0_agent(responses, k + 1, blocks.files, blocks.log)

---------------------------------------------------------------------------
\* the responses the primary engine of v3_subagent has received when it has
\* completed: the contents of its assistant messages, every one but the
\* last with stop reason tool_use
Received ==
    LET assistant == SelectSeq(stack[1].messages, LAMBDA msg : msg.role = "assistant") IN
    [k \in 1..Len(assistant) |->
        [stop_reason |-> IF k < Len(assistant) THEN "tool_use"
                         ELSE stack[1].response.stop_reason,
         content |-> assistant[k].content]]

\* the tool names the responses ask for
ToolsAsked(responses) ==
    UNION {{responses[k].content[j].name :
               j \in {h \in 1..Len(responses[k].content) :
                         responses[k].content[h].type = "tool_use"}} :
           k \in 1..Len(responses)}

\* the ids of the invocations the completed primary engine has executed,
\* in the order of their results: those of its earlier turns, and those of
\* its last
ExecutedIds ==
    LET users == SelectSeq(Tail(stack[1].messages), LAMBDA msg : msg.role = "user") IN
    Join([k \in 1..Len(users) |-> AnsweredIds(users[k].content)])
        \o AnsweredIds(stack[1].tool_results)

\* the files both variants start from
StartFiles == [p \in Paths |-> IF p = "d" THEN Dir ELSE File(<<"a", "b">>)]

\* C24: v0_minimal runs the same loop as v3_subagent: when the primary
\* engine of v3_subagent has completed on responses that ask for bash
\* only, agent() of v0_minimal given the same responses has executed the
\* same invocations in the same order, left the same files and returned
\* the same text.
C24_VariantsAgree ==
    (proc = "done" /\ ToolsAsked(Received) \subseteq {"bash"}) =>
        LET v0 == v0_agent(Received, 1, StartFiles, <<>>) IN
        /\ v0.kind = "return"
        /\ v0.result = result
        /\ v0.executed = ExecutedIds
        /\ v0.files = files

---------------------------------------------------------------------------
\* C25: a todo_update that fails returns an error text that names the
\* rejected index and the range 0 through count - 1, count the number of
\* task records at the call, and both ends of the range it names are valid
\* positions, for every count, 0 included.
C25_ErrorNamesValidRange ==
    [][(AtUpdate /\ \/ Top.response.content[Top.i].input.index.value < 0
                    \/ Top.response.content[Top.i].input.index.value >= Len(todos)) =>
        LET index == Top.response.content[Top.i].input.index.value
            after == stack'[Len(stack')]
            text == after.tool_results[Len(after.tool_results)].content
            valid == 0..(Len(todos) - 1) IN
        /\ Len(text) = 4
        /\ text[1] = "Error: Invalid index "
        /\ text[2] = ToString(index)
        /\ text[3] = ". Valid range: 0-"
        /\ 0 \in valid
        /\ \E upper \in valid : text[4] = ToString(upper)]_vars

---------------------------------------------------------------------------
\* C26: the turns field of a Subagent Record is the number of service
\* calls its run has started: 0 only before the first call, one more with
\* every call, and when the run ends between 1 and 20, the number of the
\* completing response for status 'done' and 20 for status 'timeout'.
C26_TurnsCountCalls ==
    /\ [](\A f \in Delegated :
            /\ subagents[f.subagent_id + 1].turns = calls.delegated
            /\ subagents[f.subagent_id + 1].turns = f.turn
            /\ subagents[f.subagent_id + 1].turns = 0 <=> f.request = NoRequest)
    /\ [](\A k \in 1..Len(subagents) :
            subagents[k].status \in {"done", "timeout"} => subagents[k].turns \in 1..20)
    /\ [][(Len(stack) = 2 /\ calls'.delegated # calls.delegated) =>
            /\ calls'.delegated = calls.delegated + 1
            /\ subagents'[Top.subagent_id + 1].turns
                  = subagents[Top.subagent_id + 1].turns + 1]_vars
    /\ [][SubReturns =>
            LET record == subagents'[Top.subagent_id + 1] IN
            /\ record.turns = calls.delegated
            /\ record.status = "done" =>
                  /\ record.turns = Top.turn
                  /\ Top.response.stop_reason # "tool_use"
                  /\ Len(Top.messages) = 2 * record.turns - 1
            /\ record.status = "timeout" => record.turns = 20]_vars

\* one run ended by its second response, one by the ceiling
C26_Witness ==
    /\ Len(stack) = 1
    /\ Len(subagents) = 2
    /\ subagents[1] = [task |-> "d1", status |-> "done", turns |-> 2]
    /\ subagents[2] = [task |-> "d2", status |-> "timeout", turns |-> 20]

---------------------------------------------------------------------------
\* `short` is what `long` begins with
IsPrefix(short, long) ==
    /\ Len(short) <= Len(long)
    /\ SubSeq(long, 1, Len(short)) = short

\* a history that can be sent: user and assistant messages in turn, a user
\* message first and last
Alternates(messages) ==
    /\ Len(messages) % 2 = 1
    /\ \A k \in 1..Len(messages) :
          messages[k].role = (IF k % 2 = 1 THEN "user" ELSE "assistant")

\* the number of assistant messages of a history
AssistantCount(messages) ==
    Cardinality({k \in 1..Len(messages) : messages[k].role = "assistant"})

\* the text an engine was started with
Seed(f) == IF f.role = "primary" THEN "task" ELSE subagents[f.subagent_id + 1].task

\* C27: at every service call of every engine the history sent extends the
\* history sent at the engine's previous call by appended messages only,
\* starts with the seed user message, alternates user, assistant, user,
\* ..., ends with a user message, and holds as many assistant messages as
\* responses were received before the call; the history an engine keeps
\* never loses or rewrites a message it has sent.
C27_HistoryAppendOnly ==
    /\ [](\A f \in Frames :
            f.request # NoRequest =>
                /\ f.request.messages[1] = [role |-> "user", content |-> Seed(f)]
                /\ Alternates(f.request.messages)
                /\ AssistantCount(f.request.messages) = f.turn - 1
                /\ IsPrefix(f.request.messages, f.messages))
    /\ [][\A k \in 1..Len(stack) :
            (k <= Len(stack') /\ stack'[k].subagent_id = stack[k].subagent_id) =>
                /\ IsPrefix(stack[k].messages, stack'[k].messages)
                /\ IsPrefix(stack[k].request.messages, stack'[k].request.messages)
                /\ stack'[k].request # stack[k].request =>
                      /\ stack'[k].request.messages = stack[k].messages
                      /\ stack'[k].turn = stack[k].turn + 1]_vars

\* a delegated engine makes its third call while its caller has sent two
\* requests
C27_Witness ==
    /\ Len(stack) = 2
    /\ stack[2].turn = 3
    /\ Len(stack[2].request.messages) = 5
    /\ stack[1].turn = 2
    /\ Len(stack[1].request.messages) = 3

---------------------------------------------------------------------------
\* the 'task' invocations in the assistant messages of a history
TaskInvocations(messages) ==
    UNION {{<<k, j>> : j \in {h \in 1..Len(messages[k].content) :
                                 /\ messages[k].content[h].type = "tool_use"
                                 /\ messages[k].content[h].name = "task"}} :
           k \in {h \in 1..Len(messages) : messages[h].role = "assistant"}}

\* C28: the status summary is written only when a primary turn starts; at
\* every such point no delegated engine is at work and no Subagent Record
\* is 'running', so the summary says 0 running, and the number of records
\* it reports is the number of 'task' invocations the primary engine has
\* executed so far.
C28_SummaryAtTurnStart ==
    /\ [][PrimaryTurnStarts =>
            /\ Len(stack) = 1
            /\ Top.role = "primary"
            /\ \A k \in 1..Len(subagents) : subagents[k].status # "running"
            /\ Len(subagents) = Cardinality(TaskInvocations(stack[1].messages))
            /\ subagents # <<>> =>
                  /\ Len(console') >= 5
                  /\ SubSeq(console', Len(console') - 4, Len(console'))
                        = <<"Subagents: ",
                            ToString(Cardinality(TaskInvocations(stack[1].messages))),
                            " (", "0", " running)">>]_vars
    /\ [][(console' # <<>> /\ console'[1] = "  " /\ console' # console)
              => PrimaryTurnStarts]_vars

\* a primary turn has just started after a response with two 'task'
\* invocations
C28_Witness ==
    /\ stack[1].pc = "blocks"
    /\ stack[1].i = 1
    /\ stack[1].turn = 2
    /\ Cardinality(TaskInvocations(stack[1].messages)) = 2
    /\ console = <<"  ", "Subagents: ", "2", " (", "0", " running)">>

====
